---- MODULE Spec2Model ----
(***************************************************************************)
(* A model of mrmustard's State (lab/abstract/state.py) and Transformation *)
(* (abstract/transformation.py).                                           *)
(*                                                                         *)
(* Data abstraction.  States are products of independent modes:            *)
(*   - a covariance matrix is the sequence of its per-mode blocks, each a  *)
(*     token (PureTok: a pure block, MixedTok: a thermal block); a means   *)
(*     vector is the sequence of its per-mode displacement tokens;         *)
(*   - a Fock tensor is the outer product of one amplitude vector per      *)
(*     axis: [axes |-> <<axis, ...>>], axis = [amp |-> <<a0, a1, ..>>,     *)
(*     mx |-> the mode this axis belongs to is mixed]; the shape of the    *)
(*     tensor is the sequence of the lengths of the amplitude vectors.     *)
(* Python's Optional values are sequences of length 0 (None) or 1.         *)
(***************************************************************************)
EXTENDS Integers, Sequences, FiniteSets, TLC

\* ---------------------------------------------------------------- bounds
MaxModes == 2       \* states hold at most this many modes
MaxLabel == 1       \* mode labels supplied by callers are 0..MaxLabel
MaxCutoff == 2      \* cutoffs supplied by callers are 1..MaxCutoff
LabelCap == 3       \* composition is taken while its labels stay <= LabelCap
MaxObjs == 3        \* mode selection is taken while fewer objects than this exist

None == <<>>
Some(x) == <<x>>
Get(o) == o[1]

Range(s) == {s[k] : k \in 1..Len(s)}
Min(a, b) == IF a <= b THEN a ELSE b
Max(a, b) == IF a >= b THEN a ELSE b
SeqsOf(S, n) == [1..n -> S]
SeqsUpTo(S, n) == UNION {SeqsOf(S, k) : k \in 1..n}
RECURSIVE SeqMax(_)
SeqMax(s) == IF Len(s) = 1 THEN s[1] ELSE Max(s[1], SeqMax(Tail(s)))

\* ------------------------------------------------------- Gaussian engine
PureTok == 1
MixedTok == 2
CovToks == {PureTok, MixedTok}
MeanToks == {0, 1}
\* purities and norms are in percent: 100 is 1.0
One == 100
Half == 50

\* gaussian.purity(cov, hbar): 1 exactly when every block is pure
gaussian_purity(cov) == IF \A k \in 1..Len(cov) : cov[k] = PureTok THEN One ELSE Half

\* np.isclose(x, 1.0, atol=1e-6)
isclose(x, y) == x = y

\* gaussian.join_covs / join_means: direct sum of independent subsystems
join_covs(a, b) == a \o b
join_means(a, b) == a \o b

\* gaussian.partition_cov(cov, Amodes)[0] / partition_means(means, Amodes)[0]:
\* the block of the zero-based indices Amodes, in the order given
InRange(v, idx) == \A k \in 1..Len(idx) : idx[k] + 1 \in 1..Len(v)
partition_cov(cov, idx) == [k \in 1..Len(idx) |-> cov[idx[k] + 1]]
partition_means(means, idx) == [k \in 1..Len(idx) |-> means[idx[k] + 1]]

\* ----------------------------------------------------------- Fock engine
Tensor(axes) == [axes |-> axes]
Shape(t) == [k \in 1..Len(t.axes) |-> Len(t.axes[k].amp)]

\* amplitude of occupation i-1 of a Gaussian mode with block c, displacement m
GaussAmp(c, m, i) == IF i = 1 THEN c ELSE m + c - 1
GaussVec(c, m, cutoff) == [i \in 1..cutoff |-> GaussAmp(c, m, i)]

\* fock.autocutoffs(number_stdev, number_means): per mode, clipped to a maximum
autocutoffs(cov, means) == [k \in 1..Len(cov) |-> Min(MaxCutoff, cov[k] + means[k])]

\* fock.fock_representation(cov, means, shape, return_dm)
fock_representation(cov, means, shp, return_dm) ==
    Tensor([k \in 1..Len(shp) |->
        LET mode == ((k - 1) % Len(cov)) + 1
        IN [amp |-> GaussVec(cov[mode], means[mode], shp[k]),
            mx |-> return_dm /\ cov[mode] = MixedTok]])

\* fock.ket_to_dm: the outer product of the ket with its conjugate
ket_to_dm(k) == Tensor(k.axes \o k.axes)
\* fock.dm_to_ket: the rank-1 factor of a pure density matrix
dm_to_ket(d) == Tensor(SubSeq(d.axes, 1, Len(d.axes) \div 2))
\* fock.purity(dm)
fock_purity(t) == IF \E k \in 1..Len(t.axes) : t.axes[k].mx THEN Half ELSE One

\* fock.math.pad(t, paddings) followed by t[tuple(slice(s) for s in cutoffs)]:
\* axis k is zero-padded or truncated to cuts[k]; axes beyond Len(cuts) are kept
ResizeVec(v, c) == [i \in 1..c |-> IF i <= Len(v) THEN v[i] ELSE 0]
pad_slice(t, cuts) ==
    Tensor([k \in 1..Len(t.axes) |->
        IF k <= Len(cuts)
        THEN [t.axes[k] EXCEPT !.amp = ResizeVec(t.axes[k].amp, cuts[k])]
        ELSE t.axes[k]])

\* fock.math.tensordot(a, b, [[], []]): the outer product
tensordot(a, b) == Tensor(a.axes \o b.axes)
\* math.transpose(t, perm), perm zero-based
transpose(t, perm) == Tensor([k \in 1..Len(perm) |-> t.axes[perm[k] + 1]])
\* fock.trace(dm, keep): the mode pairs of the zero-based indices keep
trace(d, keep) ==
    LET n == Len(d.axes) \div 2
    IN Tensor([k \in 1..Len(keep) |-> d.axes[keep[k] + 1]]
              \o [k \in 1..Len(keep) |-> d.axes[n + keep[k] + 1]])

\* ------------------------------------------------------------ State class
\* the outcome of a call: err is "ok" or the exception raised, self is the
\* receiver after the call, out the value returned
Ret(self, out, err) == [self |-> self, out |-> out, err |-> err]
\* v = x; F(v): the value of a call, named once and used by what follows it
Let(x, F(_)) == F(x)

\* State.__init__
State_init(cov, means, eigenvalues, symplectic, ket, dm, modes, cutoffs, norm) ==
    LET family == IF cov # None /\ means # None THEN "cov_means"
                  ELSE IF eigenvalues # None /\ symplectic # None THEN "eig_symp"
                  ELSE IF ket # None \/ dm # None THEN "fock"
                  ELSE "none"
        num == IF family = "cov_means" THEN Len(Get(cov))
               ELSE IF family = "eig_symp" THEN Len(Get(symplectic))
               ELSE IF family = "fock"
                    THEN IF ket # None THEN Len(Get(ket).axes)
                         ELSE Len(Get(dm).axes) \div 2
               ELSE 0
        self == [_purity |-> IF family = "fock" /\ ket # None THEN Some(One) ELSE None,
                 _fock_probabilities |-> None,
                 _cutoffs |-> cutoffs,
                 _cov |-> cov,
                 _means |-> means,
                 _eigenvalues |-> eigenvalues,
                 _symplectic |-> symplectic,
                 _ket |-> ket,
                 _dm |-> dm,
                 _norm |-> norm,
                 is_gaussian |-> family \in {"cov_means", "eig_symp"},
                 num_modes |-> num,
                 _modes |-> modes]
    IN IF family = "none" THEN Ret(None, None, "ValueError")
       ELSE IF modes # None /\ Len(Get(modes)) # num
            THEN Ret(None, None, "AssertionError")
       ELSE Ret(Some(self), None, "ok")

\* State.modes
modes(s) == IF s._modes = None THEN [k \in 1..s.num_modes |-> k - 1] ELSE Get(s._modes)

\* list.index: the zero-based position of the first occurrence
IndexOf(lst, m) == (CHOOSE k \in 1..Len(lst) : lst[k] = m /\ \A j \in 1..(k - 1) : lst[j] # m) - 1
\* State.indices, for a sequence of modes (ValueError when one is absent)
indices(s, ms) ==
    IF \A k \in 1..Len(ms) : ms[k] \in Range(modes(s))
    THEN Ret(s, [k \in 1..Len(ms) |-> IndexOf(modes(s), ms[k])], "ok")
    ELSE Ret(s, None, "ValueError")

\* State.__getitem__ without its length check
State_getitem_unchecked(s, item) == Ret([s EXCEPT !._modes = Some(item)], None, "ok")

\* State.__getitem__, item an int (a sequence of length 1) or an iterable
State_getitem(s, item) ==
    IF Len(item) # s.num_modes THEN Ret(s, None, "ValueError")
    ELSE Ret([s EXCEPT !._modes = Some(item)], None, "ok")

\* the stored tensor as State.fock returns it (line 207)
stored_fock(s) == IF s._ket # None THEN Get(s._ket) ELSE Get(s._dm)

\* State.purity (computed on first access and cached)
purity(s) ==
    IF s._purity # None THEN Ret(s, Get(s._purity), "ok")
    ELSE IF s.is_gaussian
         THEN IF s._cov = None THEN Ret(s, None, "EngineError")
              ELSE Ret([s EXCEPT !._purity = Some(gaussian_purity(Get(s._cov)))],
                       gaussian_purity(Get(s._cov)), "ok")
    ELSE Ret([s EXCEPT !._purity = Some(fock_purity(stored_fock(s)))],
             fock_purity(stored_fock(s)), "ok")

\* State.is_pure
is_pure(s) ==
    Let(purity(s), LAMBDA p :
        IF p.err # "ok" THEN p ELSE Ret(p.self, isclose(p.out, One), "ok"))

\* State.is_mixed
is_mixed(s) ==
    Let(is_pure(s), LAMBDA p :
        IF p.err # "ok" THEN p ELSE Ret(p.self, ~p.out, "ok"))

\* State.cutoffs
cutoffs(s) ==
    IF s._cutoffs # None THEN Ret(s, Get(s._cutoffs), "ok")
    ELSE IF s._ket = None /\ s._dm = None
         THEN IF s._cov = None \/ s._means = None THEN Ret(s, None, "EngineError")
              ELSE Ret(s, autocutoffs(Get(s._cov), Get(s._means)), "ok")
    ELSE Ret(s, SubSeq(Shape(stored_fock(s)), 1, s.num_modes), "ok")

\* State.shape
shape(s) ==
    Let(is_pure(s), LAMBDA p :
        IF p.err # "ok" THEN p
        ELSE Let(cutoffs(p.self), LAMBDA c :
            IF c.err # "ok" THEN c
            ELSE Ret(p.self, IF p.out THEN c.out ELSE c.out \o c.out, "ok")))

\* State.fock
fock(s) ==
    IF s._dm = None /\ s._ket = None
    THEN Let(shape(s), LAMBDA sh :
            IF sh.err # "ok" THEN sh
            ELSE Let(is_mixed(sh.self), LAMBDA m :
                Let(fock_representation(Get(s._cov), Get(s._means), sh.out, m.out), LAMBDA f :
                    IF m.out
                    THEN Ret([m.self EXCEPT !._dm = Some(f), !._ket = None], f, "ok")
                    ELSE Ret([m.self EXCEPT !._ket = Some(f), !._dm = None], f, "ok"))))
    ELSE Ret(s, stored_fock(s), "ok")

\* a cutoffs argument: None, or a list whose entries are cutoffs or NoneCut
NoneCut == 0
\* [c if c is not None else self.cutoffs[i] for i, c in enumerate(cutoffs)]
resolve_cutoffs(s, arg) ==
    IF arg = None THEN cutoffs(s)
    ELSE IF \A k \in 1..Len(Get(arg)) : Get(arg)[k] # NoneCut THEN Ret(s, Get(arg), "ok")
    ELSE Let(cutoffs(s), LAMBDA c :
            IF c.err # "ok" THEN c
            ELSE Ret(s, [k \in 1..Len(Get(arg)) |->
                           IF Get(arg)[k] # NoneCut THEN Get(arg)[k] ELSE c.out[k]], "ok"))

\* State.ket, lines 252-271: s is pure, cuts the cutoffs asked for
ket_of(s, cuts) ==
    IF s.is_gaussian
    THEN Let(fock_representation(Get(s._cov), Get(s._means), cuts, FALSE), LAMBDA k :
            Ret([s EXCEPT !._ket = Some(k)], Some(k), "ok"))
    ELSE IF s._ket = None
         THEN Ret([s EXCEPT !._ket = Some(dm_to_ket(Get(s._dm)))],
                  Some(dm_to_ket(Get(s._dm))), "ok")
    ELSE IF cuts # SubSeq(Shape(Get(s._ket)), 1, s.num_modes)
         THEN Ret(s, Some(pad_slice(Get(s._ket), cuts)), "ok")
    ELSE Ret(s, s._ket, "ok")

\* State.ket; out is None or Some(tensor)
ket(s, arg) ==
    Let(is_mixed(s), LAMBDA m :
        IF m.err # "ok" THEN m
        ELSE IF m.out THEN Ret(m.self, None, "ok")
        ELSE Let(resolve_cutoffs(m.self, arg), LAMBDA c :
            IF c.err # "ok" THEN c ELSE ket_of(m.self, c.out)))

\* State.dm, lines 291-303: s is mixed, cuts the cutoffs asked for
dm_of(s, cuts) ==
    IF s.is_gaussian
    THEN Let(fock_representation(Get(s._cov), Get(s._means), cuts \o cuts, TRUE), LAMBDA d :
            Ret([s EXCEPT !._dm = Some(d)], Some(d), "ok"))
    ELSE IF cuts # SubSeq(Shape(Get(s._dm)), 1, s.num_modes)
         THEN Ret(s, Some(pad_slice(Get(s._dm), cuts \o cuts)), "ok")
    ELSE Ret(s, s._dm, "ok")

\* State.dm; out is None or Some(tensor)
dm(s, arg) ==
    Let(resolve_cutoffs(s, arg), LAMBDA c :
        IF c.err # "ok" THEN c
        ELSE Let(is_pure(s), LAMBDA p :
            IF p.err # "ok" THEN p
            ELSE IF p.out
                 THEN Let(ket(p.self, Some(c.out)), LAMBDA k :
                        IF k.err # "ok" THEN k
                        ELSE IF k.out # None THEN Ret(k.self, Some(ket_to_dm(Get(k.out))), "ok")
                        ELSE Ret(k.self, k.self._dm, "ok"))
            ELSE dm_of(p.self, c.out)))

\* fock.ket_to_probs (squared moduli) and fock.dm_to_probs (the diagonal)
Squared(axes) == [k \in 1..Len(axes) |->
    [amp |-> [i \in 1..Len(axes[k].amp) |-> axes[k].amp[i] * axes[k].amp[i]], mx |-> FALSE]]
ket_to_probs(k) == Tensor(Squared(k.axes))
dm_to_probs(d) == Tensor(Squared(SubSeq(d.axes, 1, Len(d.axes) \div 2)))

\* fock.norm(fock, is_mixed): the squared norm of a ket, the trace of a density
\* matrix, in units of One
RECURSIVE SumSq(_)
SumSq(v) == IF v = <<>> THEN 0 ELSE Head(v) * Head(v) + SumSq(Tail(v))
RECURSIVE NormOf(_)
NormOf(axes) == IF axes = <<>> THEN 1 ELSE SumSq(Head(axes).amp) * NormOf(Tail(axes))
fock_norm(t, mixed) ==
    One * NormOf(SubSeq(t.axes, 1, Len(t.axes) \div (IF mixed THEN 2 ELSE 1)))

\* State.norm
norm(s) ==
    IF s.is_gaussian THEN Ret(s, s._norm, "ok")
    ELSE Let(fock(s), LAMBDA f :
            IF f.err # "ok" THEN f
            ELSE Let(is_mixed(f.self), LAMBDA m :
                IF m.err # "ok" THEN m
                ELSE Ret(m.self, fock_norm(f.out, m.out), "ok")))

\* State.fock_probabilities
fock_probabilities(s, cuts) ==
    IF s._fock_probabilities # None THEN Ret(s, Get(s._fock_probabilities), "ok")
    ELSE Let(is_mixed(s), LAMBDA m :
            IF m.err # "ok" THEN m
            ELSE IF m.out
                 THEN Let(dm(m.self, Some(cuts)), LAMBDA d :
                        IF d.err # "ok" THEN d
                        ELSE Ret([d.self EXCEPT !._fock_probabilities =
                                      Some(dm_to_probs(Get(d.out)))],
                                 dm_to_probs(Get(d.out)), "ok"))
            ELSE Let(ket(m.self, Some(cuts)), LAMBDA k :
                        IF k.err # "ok" THEN k
                        ELSE Ret([k.self EXCEPT !._fock_probabilities =
                                      Some(ket_to_probs(Get(k.out)))],
                                 ket_to_probs(Get(k.out)), "ok")))

\* the outcome of a call on two States: both operands after the call
Ret2(self, other, out, err) == [self |-> self, other |-> other, out |-> out, err |-> err]

\* [m + offset for m in ms]
Offset(ms, offset) == [k \in 1..Len(ms) |-> ms[k] + offset]
\* list(range(a, b))
PyRange(a, b) == [k \in 1..(b - a) |-> a + k - 1]
\* [x for x in lst if x in S] and [x for x in lst if x not in S]
Those(lst, S) == SelectSeq(lst, LAMBDA x : x \in S)
ThoseNot(lst, S) == SelectSeq(lst, LAMBDA x : x \notin S)

\* State.__and__ without the reordering of lines 417-420
and_perm_outer(ls, lo) == PyRange(0, ls) \o PyRange(ls, ls + lo)

\* State.__and__, lines 412-420: the axis order for tensors of ranks ls and lo
and_perm(ls, lo) ==
    SubSeq(PyRange(0, ls), 1, ls \div 2)
    \o SubSeq(PyRange(ls, ls + lo), 1, lo \div 2)
    \o SubSeq(PyRange(0, ls), ls \div 2 + 1, ls)
    \o SubSeq(PyRange(ls, ls + lo), lo \div 2 + 1, lo)

\* State.__and__, lines 422 and 429: the labels of a Fock composition
and_fock_modes(self, other) ==
    modes(self) \o Offset(modes(other), SeqMax(modes(self)) + 1)

\* State.__and__, line 434: the labels of a Gaussian composition
and_gaussian_modes(self, other) ==
    modes(self) \o Offset(modes(other), self.num_modes)

\* State.__and__, line 431 with the operands of join_covs exchanged
and_gaussian_cov_swapped(self, other) == join_covs(Get(other._cov), Get(self._cov))

\* State.__and__, lines 431-432: the cov and means of a Gaussian composition
and_gaussian_cov(self, other) == join_covs(Get(self._cov), Get(other._cov))
and_gaussian_means(self, other) == join_means(Get(self._means), Get(other._means))

\* State.__and__, lines 405-423: one operand is mixed
and_mixed(self, other) ==
    Let(dm(self, None), LAMBDA ds :
        IF ds.err # "ok" THEN Ret2(ds.self, other, None, ds.err)
        ELSE Let(dm(other, None), LAMBDA d2 :
            IF d2.err # "ok" THEN Ret2(ds.self, d2.self, None, d2.err)
            ELSE Let(State_init(None, None, None, None, None,
                        Some(transpose(tensordot(Get(ds.out), Get(d2.out)),
                                       and_perm(Len(Get(ds.out).axes), Len(Get(d2.out).axes)))),
                        Some(and_fock_modes(self, other)), None, One), LAMBDA new :
                    Ret2(ds.self, d2.self, new.self, new.err))))

\* State.__and__, lines 425-430: both operands are pure
and_pure(self, other) ==
    Let(ket(self, None), LAMBDA ks :
        IF ks.err # "ok" THEN Ret2(ks.self, other, None, ks.err)
        ELSE Let(ket(other, None), LAMBDA k2 :
            IF k2.err # "ok" THEN Ret2(ks.self, k2.self, None, k2.err)
            ELSE Let(State_init(None, None, None, None,
                        Some(tensordot(Get(ks.out), Get(k2.out))), None,
                        Some(and_fock_modes(self, other)), None, One), LAMBDA new :
                    Ret2(ks.self, k2.self, new.self, new.err))))

\* State.__and__; out is None or Some(the new State)
State_and(self, other) ==
    IF ~self.is_gaussian \/ ~other.is_gaussian
    THEN Let(is_mixed(self), LAMBDA ms :
            IF ms.err # "ok" THEN Ret2(ms.self, other, None, ms.err)
            ELSE IF ms.out THEN and_mixed(ms.self, other)
            ELSE Let(is_mixed(other), LAMBDA mo :
                IF mo.err # "ok" THEN Ret2(ms.self, mo.self, None, mo.err)
                ELSE IF mo.out THEN and_mixed(ms.self, mo.self)
                ELSE and_pure(ms.self, mo.self)))
    ELSE IF self._cov = None \/ other._cov = None \/ self._means = None \/ other._means = None
         THEN Ret2(self, other, None, "EngineError")
    ELSE Let(State_init(Some(and_gaussian_cov(self, other)),
                        Some(and_gaussian_means(self, other)),
                        None, None, None, None,
                        Some(and_gaussian_modes(self, other)), None, One), LAMBDA new :
            Ret2(self, other, new.self, new.err))

\* State.get_modes, line 468: keep=[m for m in range(self.num_modes) if m in item]
get_modes_keep(self, item) == Those(PyRange(0, self.num_modes), Range(item))

\* State.get_modes, lines 462-463: the indices handed to the partition
get_modes_indices(self, item) == item

\* State.get_modes, item an int (a sequence of length 1) or an iterable;
\* out is None or Some(the new State)
get_modes(self, item) ==
    IF self.is_gaussian
    THEN IF self._cov = None \/ self._means = None THEN Ret(self, None, "EngineError")
         ELSE IF ~InRange(Get(self._cov), get_modes_indices(self, item))
              THEN Ret(self, None, "IndexError")
         ELSE Let(State_init(
                    Some(partition_cov(Get(self._cov), get_modes_indices(self, item))),
                    Some(partition_means(Get(self._means), get_modes_indices(self, item))),
                    None, None, None, None, Some(item), None, One), LAMBDA new :
                Ret(self, new.self, new.err))
    ELSE Let(cutoffs(self), LAMBDA c :
            IF c.err # "ok" THEN c
            ELSE Let(dm(self, Some(c.out)), LAMBDA d :
                IF d.err # "ok" THEN d
                ELSE Let(State_init(None, None, None, None, None,
                            Some(trace(Get(d.out), get_modes_keep(self, item))),
                            Some(item), None, One), LAMBDA new :
                        Ret(d.self, new.self, new.err))))

\* np.allclose(a, b, atol=1e-6) on two tensors of the same rank: "ValueError" when
\* the shapes do not broadcast, else whether every pair of entries agrees
Broadcasts(a, b) ==
    \A k \in 1..Len(a.axes) :
        \/ Len(a.axes[k].amp) = Len(b.axes[k].amp)
        \/ Len(a.axes[k].amp) = 1
        \/ Len(b.axes[k].amp) = 1
BAmp(v, i) == IF Len(v) = 1 THEN v[1] ELSE v[i]
RECURSIVE Entry(_, _, _)
Entry(axes, idx, k) ==
    IF k > Len(axes) THEN 1 ELSE BAmp(axes[k].amp, idx[k]) * Entry(axes, idx, k + 1)
BDim(a, b, k) == Max(Len(a.axes[k].amp), Len(b.axes[k].amp))
allclose(a, b) ==
    IF Len(a.axes) # Len(b.axes) THEN "ValueError"
    ELSE IF ~Broadcasts(a, b) THEN "ValueError"
    ELSE IF /\ \A k \in 1..Len(a.axes) : a.axes[k].mx = b.axes[k].mx
            /\ \A idx \in [1..Len(a.axes) -> 1..MaxCutoff] :
                    (\A k \in 1..Len(a.axes) : idx[k] <= BDim(a, b, k))
                        => Entry(a.axes, idx, 1) = Entry(b.axes, idx, 1)
         THEN "True" ELSE "False"

\* the comparison of two optional tensors, with the operands as they are after it
Compared(a, b, x, y) ==
    IF x = None \/ y = None THEN Ret2(a, b, None, "TypeError")
    ELSE Let(allclose(Get(x), Get(y)), LAMBDA v :
            IF v = "ValueError" THEN Ret2(a, b, None, v) ELSE Ret2(a, b, v = "True", "ok"))

\* State.__eq__, lines 490-492.  same: other is the object self (A == A), so that
\* what a call stores in one operand is stored in the other
eq_dm(a, b, same) ==
    Let(cutoffs(b), LAMBDA c1 :
        IF c1.err # "ok" THEN Ret2(a, b, None, c1.err)
        ELSE Let(dm(a, Some(c1.out)), LAMBDA d1 :
            Let(IF same THEN d1.self ELSE b, LAMBDA b1 :
                IF d1.err # "ok" THEN Ret2(d1.self, b1, None, d1.err)
                ELSE Let(dm(b1, Some(cutoffs(b1).out)), LAMBDA d2 :
                    Let(IF same THEN d2.self ELSE d1.self, LAMBDA a2 :
                        IF d2.err # "ok" THEN Ret2(a2, d2.self, None, d2.err)
                        ELSE Compared(a2, d2.self, d1.out, d2.out))))))

\* State.__eq__, lines 485-489
eq_ket(a, b, same) ==
    Let(cutoffs(b), LAMBDA c1 :
        IF c1.err # "ok" THEN Ret2(a, b, None, c1.err)
        ELSE Let(ket(a, Some(c1.out)), LAMBDA k1 :
            Let(IF same THEN k1.self ELSE b, LAMBDA b1 :
                IF k1.err # "ok" THEN Ret2(k1.self, b1, None, k1.err)
                ELSE Let(ket(b1, Some(cutoffs(b1).out)), LAMBDA k2 :
                    Let(IF same THEN k2.self ELSE k1.self, LAMBDA a2 :
                        IF k2.err # "ok" THEN Ret2(a2, k2.self, None, k2.err)
                        ELSE IF k1.out = None \/ k2.out = None
                             THEN eq_dm(a2, k2.self, same)
                        ELSE Compared(a2, k2.self, k1.out, k2.out))))))

\* State.__eq__; out is TRUE or FALSE
State_eq(self, other, same) ==
    IF self.num_modes # other.num_modes THEN Ret2(self, other, FALSE, "ok")
    ELSE Let(purity(self), LAMBDA pa :
        Let(IF same THEN pa.self ELSE other, LAMBDA b1 :
            IF pa.err # "ok" THEN Ret2(pa.self, b1, None, pa.err)
            ELSE Let(purity(b1), LAMBDA pb :
                Let(IF same THEN pb.self ELSE pa.self, LAMBDA a2 :
                    IF pb.err # "ok" THEN Ret2(a2, pb.self, None, pb.err)
                    ELSE IF ~isclose(pa.out, pb.out) THEN Ret2(a2, pb.self, FALSE, "ok")
                    ELSE IF self.is_gaussian /\ other.is_gaussian
                         THEN Ret2(a2, pb.self,
                                   a2._means = pb.self._means /\ a2._cov = pb.self._cov, "ok")
                    ELSE eq_ket(a2, pb.self, same)))))

\* gaussian.general_dyne(cov, means, proj_cov, proj_means, indices, hbar): the
\* outcome probability and the conditional cov/means of the modes not measured
DyneProb == Half
general_dyne(cov, means, idx) ==
    [prob |-> DyneProb,
     cov |-> partition_cov(cov, ThoseNot(PyRange(0, Len(cov)), Range(idx))),
     means |-> partition_means(means, ThoseNot(PyRange(0, Len(cov)), Range(idx)))]

\* fock.contract_states(stateA, stateB, a_is_mixed, b_is_mixed, modes, normalize):
\* stateB contracted against the axes idx of stateA; what is left of stateA, a
\* ket when both are pure and a density matrix otherwise.  None when the
\* contracted dimensions differ
contract_rest(stateA, a_is_mixed, idx) ==
    ThoseNot(PyRange(0, IF a_is_mixed THEN Len(stateA.axes) \div 2 ELSE Len(stateA.axes)),
             Range(idx))
contract_states(stateA, stateB, a_is_mixed, b_is_mixed, idx) ==
    IF \E j \in 1..Len(idx) : Len(stateA.axes[idx[j] + 1].amp) # Len(stateB.axes[j].amp)
    THEN None
    ELSE IF ~a_is_mixed /\ ~b_is_mixed
         THEN Some(transpose(stateA, contract_rest(stateA, a_is_mixed, idx)))
    ELSE Some(trace(IF a_is_mixed THEN stateA ELSE ket_to_dm(stateA),
                    contract_rest(stateA, a_is_mixed, idx)))

\* what State.primal returns: a State, or a scalar probability
OutState(s) == [state |-> s, scalar |-> None]
OutScalar(x) == [state |-> None, scalar |-> Some(x)]
NoOut == [state |-> None, scalar |-> None]

\* getattr(self, "_normalize", False) (line 354): the base class sets no
\* _normalize; a measurement subclass does
getattr_normalize(self) ==
    IF "_normalize" \in DOMAIN self THEN self._normalize ELSE FALSE

\* self._preferred_projection(other, indices) (line 364): the base class defines
\* none, and looking it up raises AttributeError; a subclass defines one, which
\* returns the contraction ("returns") or raises while it runs
NoProjection == "AttributeError"
preferred_projection(self) ==
    IF "_preferred_projection" \in DOMAIN self THEN self._preferred_projection
    ELSE NoProjection

\* State.primal, line 338
remaining_modes(self, other) == ThoseNot(modes(other), Range(modes(self)))

\* State.primal, lines 340-356: both Gaussian
primal_gaussian(self, other) ==
    Let(indices(other, modes(self)), LAMBDA idx :
        IF idx.err # "ok" THEN Ret2(self, other, NoOut, idx.err)
        ELSE IF other._cov = None \/ other._means = None
                \/ self._cov = None \/ self._means = None
             THEN Ret2(self, other, NoOut, "EngineError")
        ELSE Let(general_dyne(Get(other._cov), Get(other._means), idx.out), LAMBDA g :
            IF Len(remaining_modes(self, other)) > 0
            THEN Let(State_init(Some(g.cov), Some(g.means), None, None, None, None,
                                Some(remaining_modes(self, other)), None,
                                IF getattr_normalize(self) THEN One ELSE g.prob),
                     LAMBDA new : Ret2(self, other, OutState(new.self), new.err))
            ELSE Ret2(self, other, OutScalar(g.prob), "ok")))

\* State.primal, lines 359-362 and 367: the cutoffs asked of other and of self
primal_other_cutoffs(self, other, oc) ==
    [k \in 1..other.num_modes |->
        IF modes(other)[k] \notin Range(modes(self)) THEN NoneCut
        ELSE oc[IndexOf(modes(other), modes(other)[k]) + 1]]
primal_self_cutoffs(oc, idx) == [k \in 1..Len(idx) |-> oc[idx[k] + 1]]

\* State.primal, lines 377-388: what is returned for the contraction out_fock
primal_result(self, other, out_fock, mixed) ==
    IF out_fock = None THEN Ret2(self, other, NoOut, "EngineError")
    ELSE IF Len(remaining_modes(self, other)) > 0
         THEN Let(State_init(None, None, None, None,
                             IF mixed THEN None ELSE out_fock,
                             IF mixed THEN out_fock ELSE None,
                             Some(remaining_modes(self, other)), None, One),
                  LAMBDA new : Ret2(self, other, OutState(new.self), new.err))
    ELSE Ret2(self, other, OutScalar(DyneProb), "ok")

\* State.primal, lines 358-376: one of the two is not Gaussian.  The except
\* clause of line 365 takes the generic contraction on every AttributeError of
\* line 364; a preferred projection that returns computes that same contraction
primal_fock(self, other) ==
    Let(cutoffs(other), LAMBDA oc :
        IF oc.err # "ok" THEN Ret2(self, other, NoOut, oc.err)
        ELSE Let(indices(other, modes(self)), LAMBDA idx :
            IF idx.err # "ok" THEN Ret2(self, other, NoOut, idx.err)
            ELSE IF preferred_projection(self) \notin {"AttributeError", "returns"}
                 THEN Ret2(self, other, NoOut, preferred_projection(self))
            ELSE Let(is_pure(other), LAMBDA po :
                IF po.err # "ok" THEN Ret2(self, po.self, NoOut, po.err)
                ELSE Let(IF po.out
                         THEN ket(po.self, Some(primal_other_cutoffs(self, other, oc.out)))
                         ELSE dm(po.self, Some(primal_other_cutoffs(self, other, oc.out))),
                    LAMBDA A :
                    IF A.err # "ok" THEN Ret2(self, A.self, NoOut, A.err)
                    ELSE Let(is_pure(self), LAMBDA ps :
                        IF ps.err # "ok" THEN Ret2(ps.self, A.self, NoOut, ps.err)
                        ELSE Let(IF ps.out
                                 THEN ket(ps.self, Some(primal_self_cutoffs(oc.out, idx.out)))
                                 ELSE dm(ps.self, Some(primal_self_cutoffs(oc.out, idx.out))),
                            LAMBDA B :
                            IF B.err # "ok" THEN Ret2(B.self, A.self, NoOut, B.err)
                            ELSE primal_result(B.self, A.self,
                                    contract_states(Get(A.out), Get(B.out),
                                                    ~po.out, ~ps.out, idx.out),
                                    ~po.out \/ ~ps.out)))))))

\* State.primal(other) for other a State (lines 337-388): other projected onto self
primal(self, other) ==
    IF self.is_gaussian /\ other.is_gaussian
    THEN primal_gaussian(self, other)
    ELSE primal_fock(self, other)

\* issubclass(other.__class__, State)
IsState(x) == "is_gaussian" \in DOMAIN x
\* x.__class__.__qualname__
qualname(x) == IF IsState(x) THEN "State" ELSE x.class

\* the TypeError of lines 393-395 and 497-499, with the names its message holds
Mismatch(applied, to) == [state |-> None, scalar |-> None, names |-> <<applied, to>>]

\* other.dual(self) and other.primal(self) for other no State: a Transformation
\* defines both, and either returns a State or raises while it runs; another
\* object has no such attribute, and looking it up raises AttributeError
call_dual(other, self) ==
    IF "dual" \notin DOMAIN other THEN [out |-> NoOut, err |-> "AttributeError"]
    ELSE IF other.dual = "returns" THEN [out |-> OutState(Some(self)), err |-> "ok"]
    ELSE [out |-> NoOut, err |-> other.dual]
call_primal(other, self) ==
    IF "primal" \notin DOMAIN other THEN [out |-> NoOut, err |-> "AttributeError"]
    ELSE IF other.primal = "returns" THEN [out |-> OutState(Some(self)), err |-> "ok"]
    ELSE [out |-> NoOut, err |-> other.primal]

\* State.primal without the except clause of lines 392-395
primal_dual_uncaught(self, other) ==
    Let(call_dual(other, self), LAMBDA d : Ret2(self, other, d.out, d.err))

\* State.primal(other) for other no State (lines 390-395)
primal_dual(self, other) ==
    Let(call_dual(other, self), LAMBDA d :
        IF d.err = "AttributeError"
        THEN Ret2(self, other, Mismatch(qualname(other), qualname(self)), "TypeError")
        ELSE Ret2(self, other, d.out, d.err))

\* State.__rshift__: self >> other
State_rshift(self, other) ==
    IF IsState(other)
    THEN Ret2(self, other, Mismatch(qualname(other), "state"), "TypeError")
    ELSE Let(call_primal(other, self), LAMBDA r : Ret2(self, other, r.out, r.err))

\* tensor * c and tensor / c
Scaled(t, num, den) == [axes |-> t.axes, num |-> num, den |-> den]
times(t, c) == Scaled(t, c, 1)
over(t, c) == Scaled(t, 1, c)

\* what c * psi and psi / c return: a State or a bare tensor, and whether a
\* UserWarning was emitted
Product(state, tensor, warned) == [state |-> state, tensor |-> tensor, warned |-> warned]

\* the body shared by State.__rmul__ and State.__truediv__ (lines 521-530 and
\* 537-545), scale the operator applied to the tensor
scale_state(self, scale(_)) ==
    IF self.is_gaussian
    THEN Let(fock(self), LAMBDA f :
            Ret(f.self, Product(None, IF f.err = "ok" THEN Some(f.out) ELSE None, TRUE), f.err))
    ELSE IF self._dm # None
    THEN Let(dm(self, None), LAMBDA d :
            IF d.err # "ok" THEN Ret(d.self, Product(None, None, FALSE), d.err)
            ELSE IF d.out = None THEN Ret(d.self, Product(None, None, FALSE), "TypeError")
            ELSE Let(State_init(None, None, None, None, None, Some(scale(Get(d.out))),
                                Some(modes(d.self)), None, One), LAMBDA new :
                    Ret(d.self, Product(new.self, None, FALSE), new.err)))
    ELSE IF self._ket # None
    THEN Let(ket(self, None), LAMBDA k :
            IF k.err # "ok" THEN Ret(k.self, Product(None, None, FALSE), k.err)
            ELSE IF k.out = None THEN Ret(k.self, Product(None, None, FALSE), "TypeError")
            ELSE Let(State_init(None, None, None, None, Some(scale(Get(k.out))), None,
                                Some(modes(k.self)), None, One), LAMBDA new :
                    Ret(k.self, Product(new.self, None, FALSE), new.err)))
    ELSE Ret(self, Product(None, None, FALSE), "ValueError")

\* State.__rmul__: other * self
State_rmul(self, other) == scale_state(self, LAMBDA t : times(t, other))
\* State.__truediv__: self / other
State_truediv(self, other) == scale_state(self, LAMBDA t : over(t, other))

\* ---------------------------------------------------- Transformation class
\* a Transformation object: its acting modes (None: all modes of the state it is
\* applied to) and its parameters, Y (Y_matrix() is not None: a noisy channel)
\* and d (the displacement d_vector() adds; 0: none)
Transformation(ms, Y, d) == [_modes |-> ms, Y |-> Y, d |-> d]

\* the State a Transformation is applied to (mrmustard.abstract.State)
GState(cov, means, mixed) == [cov |-> cov, means |-> means, is_mixed |-> mixed,
                              num_modes |-> Len(cov)]
\* State.from_gaussian(cov, means, mixed, hbar)
from_gaussian(cov, means, mixed) == GState(cov, means, mixed)

\* gaussian.CPTP(cov, means, X, Y, d, modes): the channel on the indices modes,
\* the identity elsewhere
CPTP(cov, means, Y, d, ms) ==
    [cov |-> [k \in 1..Len(cov) |->
                IF (k - 1) \in Range(ms) /\ Y THEN MixedTok ELSE cov[k]],
     means |-> [k \in 1..Len(means) |->
                IF (k - 1) \in Range(ms) THEN (means[k] + d) % 2 ELSE means[k]]]

\* Transformation.__call__, line 21: the modes the channel acts on
acting(self, state) ==
    IF self._modes = None THEN PyRange(0, state.num_modes) ELSE Get(self._modes)

\* Transformation.__call__: self after the call, the State returned, the modes used
Transformation_call(self, state) ==
    IF ~InRange(state.cov, acting(self, state))
    THEN [self |-> self, out |-> None, err |-> "IndexError", acting |-> acting(self, state)]
    ELSE Let(CPTP(state.cov, state.means, self.Y, self.d, acting(self, state)), LAMBDA c :
            [self |-> self,
             out |-> Some(from_gaussian(c.cov, c.means, state.is_mixed \/ self.Y)),
             err |-> "ok",
             acting |-> acting(self, state)])

\* what is written between the brackets of op[...]
IntItem(m) == [kind |-> "int", v |-> <<m>>]
SliceItem(start, stop, step) == [kind |-> "slice", v |-> <<start, stop, step>>]
ListItem(ms) == [kind |-> "list", v |-> ms]
OtherItem == [kind |-> "other", v |-> <<>>]
\* a slice written without a step (op[0:2]) has step None
NoStep == 0
\* list(range(start, stop, step)) for step > 0
RangeStep(start, stop, step) ==
    [k \in 1..(IF stop > start THEN (stop - start + step - 1) \div step ELSE 0) |->
        start + (k - 1) * step]

\* Transformation.__getitem__ returning a copy bound to the modes instead of self
Transformation_getitem_copy(objs, r, items) ==
    IF items.kind = "other"
    THEN [objs |-> objs, out |-> None, err |-> "ValueError", modes |-> None]
    ELSE IF items.kind = "slice" /\ items.v[3] = NoStep
         THEN [objs |-> objs, out |-> None, err |-> "TypeError", modes |-> None]
    ELSE Let(IF items.kind = "slice" THEN RangeStep(items.v[1], items.v[2], items.v[3])
             ELSE items.v, LAMBDA ms :
            [objs |-> Append(objs, [objs[r] EXCEPT !._modes = Some(ms)]),
             out |-> Some(Len(objs) + 1), err |-> "ok", modes |-> Some(ms)])

\* Transformation.__getitem__ on the object objs[r]: the objects after the call,
\* the reference returned (None when it raises), and the modes selected
Transformation_getitem(objs, r, items) ==
    IF items.kind = "other"
    THEN [objs |-> objs, out |-> None, err |-> "ValueError", modes |-> None]
    ELSE IF items.kind = "slice" /\ items.v[3] = NoStep
         THEN [objs |-> objs, out |-> None, err |-> "TypeError", modes |-> None]
    ELSE Let(IF items.kind = "slice" THEN RangeStep(items.v[1], items.v[2], items.v[3])
             ELSE items.v, LAMBDA ms :
            [objs |-> [objs EXCEPT ![r]._modes = Some(ms)],
             out |-> Some(r), err |-> "ok", modes |-> Some(ms)])

\* ------------------------------------------------------ the State machine
\* st: the State the program holds (None before the first construction);
\* ret: the last call: its name, the exception it raised ("ok" if none), whether
\* st is still the object it was before the call, and what the call was given
\* objs: the Transformation objects in memory (none before the construction),
\* objs[1] the one constructed;
\* refs: the references op[...] has returned; lastSel: the modes of the most
\* recent selection; app: the last application of a Transformation to a State
VARIABLES st, ret, objs, refs, lastSel, app

\* ------------------------------------------------------------- the inputs
\* single-mode data a caller hands to the constructor
GaussSamples == {[cov |-> <<PureTok>>, means |-> <<0>>],
                 [cov |-> <<PureTok>>, means |-> <<1>>],
                 [cov |-> <<MixedTok>>, means |-> <<0>>]}
AmpVecs == {[i \in 1..c |-> 1] : c \in 1..MaxCutoff}
KetSamples == {Tensor(<<[amp |-> v, mx |-> FALSE]>>) : v \in AmpVecs}
DmSamples == {ket_to_dm(k) : k \in KetSamples}
             \cup {Tensor(<<[amp |-> v, mx |-> TRUE], [amp |-> v, mx |-> TRUE]>>) : v \in AmpVecs}
Labels == 0..MaxLabel
ModesArgs == {None} \cup {Some(<<l>>) : l \in Labels} \cup {Some(<<0, l>>) : l \in {MaxLabel}}
CutoffArgs(n) == {None} \cup {Some(c) : c \in SeqsOf(1..MaxCutoff, n)}

Args(cov, means, eigenvalues, symplectic, k, d, labels, cuts) ==
    [cov |-> cov, means |-> means, eigenvalues |-> eigenvalues, symplectic |-> symplectic,
     ket |-> k, dm |-> d, modes |-> labels, cutoffs |-> cuts]

\* the constructor calls the model draws from
GaussianArgs == {Args(Some(g.cov), Some(g.means), None, None, None, None, l, None) :
                    g \in GaussSamples, l \in ModesArgs}
                \cup {Args(Some(g.cov), Some(g.means), None, None, None, None, None, cu) :
                    g \in GaussSamples, cu \in CutoffArgs(1)}
FockArgs == {Args(None, None, None, None, Some(k), None, l, None) :
                    k \in KetSamples, l \in ModesArgs}
            \cup {Args(None, None, None, None, None, Some(d), l, None) :
                    d \in DmSamples, l \in ModesArgs}
OddArgs == {Args(None, None, None, None, None, None, None, None),
            Args(Some(<<PureTok>>), None, None, None, None, None, None, None),
            Args(None, Some(<<0>>), None, None, None, None, None, None),
            Args(None, None, Some(<<1>>), None, None, None, None, None),
            Args(None, None, Some(<<1>>), Some(<<1>>), None, None, None, None),
            Args(Some(<<PureTok>>), Some(<<0>>), Some(<<1>>), Some(<<1>>), None, None, None, None)}
           \cup {Args(Some(<<PureTok>>), Some(<<0>>), None, None, Some(k), None, None, None) :
                    k \in KetSamples}
           \cup {Args(None, None, None, None, Some(k), Some(ket_to_dm(k)), None, None) :
                    k \in KetSamples}
CtorArgs == GaussianArgs \cup FockArgs \cup OddArgs

New(a) == State_init(a.cov, a.means, a.eigenvalues, a.symplectic, a.ket, a.dm,
                     a.modes, a.cutoffs, One)

\* the families of representation a constructor call supplies in full
Families(a) ==
    (IF a.cov # None /\ a.means # None THEN {"cov_means"} ELSE {})
    \cup (IF a.eigenvalues # None /\ a.symplectic # None THEN {"eig_symp"} ELSE {})
    \cup (IF a.ket # None THEN {"ket"} ELSE {})
    \cup (IF a.dm # None THEN {"dm"} ELSE {})

\* the number of modes of the data a constructor call supplies
DataModes(a) ==
    IF a.cov # None THEN Len(Get(a.cov))
    ELSE IF a.symplectic # None THEN Len(Get(a.symplectic))
    ELSE IF a.ket # None THEN Len(Get(a.ket).axes)
    ELSE IF a.dm # None THEN Len(Get(a.dm).axes) \div 2
    ELSE 0

\* the States a caller has at hand as the second operand of a binary call
FreshArgs == {a \in GaussianArgs : a.cutoffs = None /\ a.modes = None}
             \cup {a \in GaussianArgs : a.cutoffs = None /\ a.modes = Some(<<MaxLabel>>)
                                         /\ a.cov = Some(<<PureTok>>) /\ a.means = Some(<<0>>)}
             \cup {a \in FockArgs : a.modes = None /\ a.ket # None}
             \cup {a \in FockArgs : a.modes = None /\ a.dm # None
                                     /\ fock_purity(Get(a.dm)) # One}
FreshStates == {Get(New(a).self) : a \in FreshArgs}
\* instances of measurement subclasses of State, which carry _normalize
Normalizing == {o @@ [_normalize |-> b] :
                    o \in {f \in FreshStates : f.is_gaussian /\ f._modes = None},
                    b \in BOOLEAN}

\* instances of subclasses of State that define _preferred_projection
Projecting == {o @@ [_preferred_projection |-> p] :
                    o \in {f \in FreshStates : f._modes = None /\ ~f.is_gaussian},
                    p \in {"returns", "AttributeError", "ValueError"}}
\* operands that are no State: Transformations, whose dual and primal return or
\* raise while they run, and a number
Operands == {[class |-> "Transformation", dual |-> d, primal |-> d] :
                    d \in {"returns", "AttributeError", "ValueError"}}
            \cup {[class |-> "int"]}
\* the scalars of c * psi and psi / c
Scalars == 2..3

Call(op, err, same, arg) == [op |-> op, err |-> err, same |-> same, arg |-> arg]

\* the Transformations the model constructs: unitaries and channels, with and
\* without a displacement, no modes selected yet
NewTransformations == {Transformation(None, Y, d) : Y \in BOOLEAN, d \in MeanToks}
\* the States a Transformation is applied to
GStates == {GState(<<PureTok>>, <<0>>, FALSE),
            GState(<<MixedTok>>, <<1>>, TRUE),
            GState(<<PureTok, PureTok>>, <<1, 0>>, FALSE),
            GState(<<PureTok, MixedTok>>, <<0, 1>>, TRUE)}
\* what callers write between the brackets of op[...]
Items == {IntItem(m) : m \in Labels}
         \cup {ListItem(ms) : ms \in SeqsUpTo(Labels, MaxModes)}
         \cup {SliceItem(0, MaxLabel + 1, step) : step \in {NoStep, 1}}
         \cup {OtherItem}
NoApp == [ref |-> 0, state |-> None, acting |-> None, out |-> None, err |-> "ok"]

svars == <<st, ret>>
tvars == <<objs, refs, lastSel, app>>

Init ==
    /\ st = None
    /\ ret = Call("none", "ok", FALSE, None)
    /\ objs = <<>>
    /\ refs = {}
    /\ lastSel = None
    /\ app = NoApp

\* s = State(...): each behaviour follows one State from its construction
Construct(a) ==
    /\ st = None
    /\ Let(New(a), LAMBDA r :
        /\ st' = r.self
        /\ ret' = Call("init", r.err, FALSE,
                       [families |-> Families(a),
                        fits |-> IF a.modes = None THEN TRUE
                                 ELSE Len(Get(a.modes)) = DataModes(a)]))
    /\ UNCHANGED tvars

\* s[item]
GetItem(item) ==
    /\ st # None
    /\ Let(State_getitem(Get(st), item), LAMBDA r :
        /\ st' = Some(r.self)
        /\ ret' = Call("getitem", r.err, TRUE,
                       [fits |-> Len(item) = Get(st).num_modes,
                        kept |-> r.self._modes = Get(st)._modes]))
    /\ UNCHANGED tvars

\* s = s.get_modes(item)
GetModes(item) ==
    /\ st # None
    /\ Let(get_modes(Get(st), item), LAMBDA r :
        /\ st' = IF r.err = "ok" THEN r.out ELSE Some(r.self)
        /\ ret' = Call("get_modes", r.err, r.err # "ok", [item |-> item, before |-> Get(st)]))
    /\ UNCHANGED tvars

\* s & o (left) or o & s; replace: the caller goes on with the composite
And(o, left, replace) ==
    /\ st # None
    /\ Get(st).num_modes + o.num_modes <= MaxModes
    /\ Let(IF left THEN State_and(Get(st), o) ELSE State_and(o, Get(st)), LAMBDA r :
        /\ IF r.err = "ok" THEN SeqMax(modes(Get(r.out))) <= LabelCap ELSE TRUE
        /\ st' = IF replace /\ r.err = "ok" THEN r.out
                 ELSE Some(IF left THEN r.self ELSE r.other)
        /\ ret' = Call("and", r.err, ~(replace /\ r.err = "ok"),
                       [lhs |-> IF left THEN Get(st) ELSE o,
                        rhs |-> IF left THEN o ELSE Get(st)]))
    /\ UNCHANGED tvars

\* s.primal(o) (asSelf: o projected onto s) or o.primal(s); replace: the caller
\* goes on with the State returned, if one is
Primal(o, asSelf, replace) ==
    /\ st # None
    /\ Let(IF asSelf THEN primal(Get(st), o) ELSE primal(o, Get(st)), LAMBDA r :
        /\ st' = IF replace /\ r.err = "ok" /\ r.out.state # None THEN r.out.state
                 ELSE Some(IF asSelf THEN r.self ELSE r.other)
        /\ ret' = Call("primal", r.err, ~(replace /\ r.err = "ok" /\ r.out.state # None),
                       [scalar |-> r.out.scalar, out |-> r.out.state,
                        self |-> IF asSelf THEN Get(st) ELSE o,
                        other |-> IF asSelf THEN o ELSE Get(st)]))
    /\ UNCHANGED tvars

\* s.fock
Fock ==
    /\ st # None
    /\ Let(fock(Get(st)), LAMBDA r :
        /\ st' = Some(r.self)
        /\ ret' = Call("fock", r.err, TRUE, None))
    /\ UNCHANGED tvars

\* s.ket(cutoffs)
Ket(arg) ==
    /\ st # None
    /\ Let(ket(Get(st), arg), LAMBDA r :
        /\ st' = Some(r.self)
        /\ ret' = Call("ket", r.err, TRUE, [cutoffs |-> arg, psi |-> Get(st), out |-> r.out]))
    /\ UNCHANGED tvars

\* s.dm(cutoffs)
Dm(arg) ==
    /\ st # None
    /\ Let(dm(Get(st), arg), LAMBDA r :
        /\ st' = Some(r.self)
        /\ ret' = Call("dm", r.err, TRUE, [cutoffs |-> arg, psi |-> Get(st), out |-> r.out]))
    /\ UNCHANGED tvars

\* s.fock_probabilities(cutoffs)
FockProbabilities(cuts) ==
    /\ st # None
    /\ Let(fock_probabilities(Get(st), cuts), LAMBDA r :
        /\ st' = Some(r.self)
        /\ ret' = Call("fock_probabilities", r.err, TRUE,
                       [cutoffs |-> cuts, out |-> r.out, first |-> Get(st)._fock_probabilities = None]))
    /\ UNCHANGED tvars

\* s == o (left) or o == s
Eq(o, left) ==
    /\ st # None
    /\ Let(IF left THEN State_eq(Get(st), o, FALSE) ELSE State_eq(o, Get(st), FALSE), LAMBDA r :
        /\ st' = Some(IF left THEN r.self ELSE r.other)
        /\ ret' = Call("eq", r.err, TRUE,
                       [left |-> left, out |-> r.out, o |-> IF left THEN r.other ELSE r.self,
                        s0 |-> Get(st), o0 |-> o]))
    /\ UNCHANGED tvars

\* s == s
EqSelf ==
    /\ st # None
    /\ Let(State_eq(Get(st), Get(st), TRUE), LAMBDA r :
        /\ st' = Some(r.self)
        /\ ret' = Call("eq_self", r.err, TRUE, [out |-> r.out]))
    /\ UNCHANGED tvars

\* s.primal(x), written x << s, for x no State
PrimalDual(x) ==
    /\ st # None
    /\ Let(primal_dual(Get(st), x), LAMBDA r :
        /\ st' = Some(r.self)
        /\ ret' = Call("primal_dual", r.err, TRUE, [x |-> x, out |-> r.out]))
    /\ UNCHANGED tvars

\* s >> x
RShift(x) ==
    /\ st # None
    /\ Let(State_rshift(Get(st), x), LAMBDA r :
        /\ st' = Some(r.self)
        /\ ret' = Call("rshift", r.err, TRUE, [x |-> x, out |-> r.out]))
    /\ UNCHANGED tvars

\* c * s
Mul(c) ==
    /\ st # None
    /\ Let(State_rmul(Get(st), c), LAMBDA r :
        /\ st' = Some(r.self)
        /\ ret' = Call("mul", r.err, TRUE, [c |-> c, psi |-> Get(st), out |-> r.out]))
    /\ UNCHANGED tvars

\* s / c
Div(c) ==
    /\ st # None
    /\ Let(State_truediv(Get(st), c), LAMBDA r :
        /\ st' = Some(r.self)
        /\ ret' = Call("div", r.err, TRUE, [c |-> c, psi |-> Get(st), out |-> r.out]))
    /\ UNCHANGED tvars

\* op = a Transformation, constructed with its parameters
NewOp(t) ==
    /\ objs = <<>>
    /\ objs' = <<t>>
    /\ UNCHANGED <<refs, lastSel, app>>
    /\ UNCHANGED svars

\* r = op[items], op any reference to the Transformation the program holds
Select(r, items) ==
    /\ objs # <<>>
    /\ Len(objs) < MaxObjs
    /\ Let(Transformation_getitem(objs, r, items), LAMBDA g :
        /\ objs' = g.objs
        /\ refs' = IF g.err = "ok" THEN refs \cup {Get(g.out)} ELSE refs
        /\ lastSel' = IF g.err = "ok" THEN g.modes ELSE lastSel
        /\ app' = NoApp)
    /\ UNCHANGED svars

\* r(state), r any reference to the Transformation the program holds
Apply(r, state) ==
    /\ objs # <<>>
    /\ Let(Transformation_call(objs[r], state), LAMBDA c :
        /\ objs' = [objs EXCEPT ![r] = c.self]
        /\ app' = [ref |-> r, state |-> Some(state), acting |-> Some(c.acting),
                    out |-> c.out, err |-> c.err])
    /\ UNCHANGED <<refs, lastSel>>
    /\ UNCHANGED svars

vars == <<st, ret, objs, refs, lastSel, app>>

\* construction, relabelling, partition, composition and projection
Next ==
    \/ \E a \in CtorArgs : Construct(a)
    \/ \E item \in SeqsUpTo(Labels, MaxModes) : GetItem(item)
    \/ \E item \in SeqsUpTo(0..LabelCap, MaxModes) :
            (st # None /\ Range(item) \subseteq Range(modes(Get(st))) \cup {0}) /\ GetModes(item)
    \/ \E o \in FreshStates, left \in BOOLEAN, replace \in BOOLEAN : And(o, left, replace)
    \/ \E o \in FreshStates \cup Normalizing, asSelf \in BOOLEAN, replace \in BOOLEAN :
            (IF "_normalize" \in DOMAIN o THEN ~asSelf ELSE TRUE) /\ Primal(o, asSelf, replace)

Spec == Init /\ [][Next]_vars

\* construction from one family, and the calls that read or fill the Fock
\* representation
NextFock ==
    \/ \E a \in GaussianArgs \cup FockArgs : Construct(a)
    \/ Fock
    \/ \E arg \in UNION {CutoffArgs(n) : n \in 1..MaxModes} :
            (st # None /\ (IF arg = None THEN TRUE ELSE Len(Get(arg)) = Get(st).num_modes))
            /\ Ket(arg)
    \/ \E arg \in UNION {CutoffArgs(n) : n \in 1..MaxModes} :
            (st # None /\ (IF arg = None THEN TRUE ELSE Len(Get(arg)) = Get(st).num_modes))
            /\ Dm(arg)
    \/ \E cuts \in SeqsUpTo(1..MaxCutoff, MaxModes) :
            (st # None /\ Len(cuts) = Get(st).num_modes) /\ FockProbabilities(cuts)
    \/ \E o \in FreshStates, left \in BOOLEAN : Eq(o, left)
    \/ EqSelf
    \/ \E o \in FreshStates, left \in BOOLEAN : And(o, left, FALSE)
    \/ \E o \in FreshStates, asSelf \in BOOLEAN : Primal(o, asSelf, FALSE)

SpecFock == Init /\ [][NextFock]_vars

\* mode selection on, and application of, a Transformation
NextT ==
    \/ \E t \in NewTransformations : NewOp(t)
    \/ \E r \in {1} \cup refs, items \in Items : Select(r, items)
    \/ \E r \in {1} \cup refs, state \in GStates : Apply(r, state)

SpecT == Init /\ [][NextT]_vars

\* construction from one family, the operators >> and <<, and scalar arithmetic
NextOps ==
    \/ \E a \in GaussianArgs \cup FockArgs : Construct(a)
    \/ \E x \in Operands : PrimalDual(x)
    \/ \E x \in Operands \cup FreshStates : RShift(x)
    \/ \E o \in FreshStates \cup Projecting : Primal(o, FALSE, FALSE)
    \/ \E c \in Scalars : Mul(c)
    \/ \E c \in Scalars : Div(c)

SpecOps == Init /\ [][NextOps]_vars

\* ------------------------------------------------------------- the claims
NoDup(s) == \A i, j \in 1..Len(s) : i # j => s[i] # s[j]
\* the State has the data its family needs
HasData(s) == IF s.is_gaussian THEN s._cov # None /\ s._means # None ELSE TRUE
\* the data a State holds for the mode at position k (from 1)
ModeData(s, k) ==
    IF s.is_gaussian THEN [cov |-> Get(s._cov)[k], means |-> Get(s._means)[k]]
    ELSE [amp |-> stored_fock(s).axes[k].amp, mx |-> stored_fock(s).axes[k].mx]
SingleGaussian(s) == s.is_gaussian /\ s.num_modes = 1 /\ HasData(s)

\* C1: a construction succeeds only when exactly one representation family among
\* (cov, means), (eigenvalues, symplectic), ket, dm is supplied: it fails when
\* none is complete and when more than one is supplied.
C1_ExactlyOneFamily ==
    ret.op = "init" => (ret.err = "ok" => Cardinality(ret.arg.families) = 1)

\* C2: every State reached by construction, relabelling, get_modes, & and primal
\* has len(modes) = num_modes; a construction whose modes list has another length
\* fails, and a relabelling with a list of another length fails and leaves the
\* labels as they were.
C2_ModesLength ==
    /\ st # None => Len(modes(Get(st))) = Get(st).num_modes
    /\ (ret.op = "init" /\ ~ret.arg.fits) => (ret.err # "ok" /\ st = None)
    /\ (ret.op = "getitem" /\ ~ret.arg.fits) => (ret.err = "ValueError" /\ ret.arg.kept)

\* C2's case: a composite State with labels of its own has refused a relabelling
C2_Witness ==
    /\ st # None
    /\ Get(st).num_modes = 2
    /\ Get(st)._modes # None
    /\ ret.op = "getitem"
    /\ ~ret.arg.fits
    /\ ret.err = "ValueError"

\* C3: in A & B, when the label lists of A and of B are duplicate-free, the label
\* list of the result is duplicate-free, in the Gaussian and in the Fock branches.
C3_NoCollision ==
    (/\ ret.op = "and"
     /\ ret.err = "ok"
     /\ ~ret.same
     /\ NoDup(modes(ret.arg.lhs))
     /\ NoDup(modes(ret.arg.rhs)))
    => NoDup(modes(Get(st)))

\* c.get_modes(item) == a
Recovers(c, item, a) ==
    Let(get_modes(c, item), LAMBDA g :
        IF g.err # "ok" THEN FALSE
        ELSE Let(State_eq(Get(g.out), a, FALSE), LAMBDA e :
            IF e.err # "ok" THEN FALSE ELSE e.out))

C5_GetModes ==
    (/\ ret.op = "get_modes"
     /\ HasData(ret.arg.before)
     /\ NoDup(modes(ret.arg.before))
     /\ NoDup(ret.arg.item)
     /\ Range(ret.arg.item) \subseteq Range(modes(ret.arg.before)))
    => /\ ret.err = "ok"
       /\ Get(st).num_modes = Len(ret.arg.item)
       /\ modes(Get(st)) = ret.arg.item
       /\ \A i \in 1..Len(ret.arg.item) :
            ModeData(Get(st), i)
              = ModeData(ret.arg.before,
                         IndexOf(modes(ret.arg.before), ret.arg.item[i]) + 1)

\* s1 == s2, evaluated on the two States as they are
Equal(s1, s2) ==
    Let(State_eq(s1, s2, FALSE), LAMBDA e : IF e.err # "ok" THEN FALSE ELSE e.out)

\* C6: == is reflexive (A == A is True) and symmetric (when A == B is True, so is
\* B == A), for every combination of representations, Fock operands of
\* different cutoffs included.
C6_EqReflexiveSymmetric ==
    /\ ret.op = "eq_self" => (IF ret.err # "ok" THEN FALSE ELSE ret.arg.out)
    /\ (ret.op = "eq" /\ (IF ret.err # "ok" THEN FALSE ELSE ret.arg.out))
            => IF ret.arg.left THEN Equal(ret.arg.o, Get(st)) ELSE Equal(Get(st), ret.arg.o)

\* a Gaussian State has materialized its Fock representation
Materialized(s) == s.is_gaussian /\ (s._ket # None \/ s._dm # None)

\* C7: once a Gaussian State has materialized its Fock representation, no call of
\* fock, ket(cutoffs), dm(cutoffs), fock_probabilities, ==, & or primal on it
\* changes the stored ket/dm.
C7_CacheStable ==
    [][(/\ st # None
        /\ ret'.same
        /\ IF st = None THEN FALSE ELSE Materialized(Get(st)))
       => (Get(st')._ket = Get(st)._ket /\ Get(st')._dm = Get(st)._dm)]_vars

\* C8: once a State holds a Fock tensor, its cutoffs property equals the per-mode
\* dimensions of that tensor.
C8_CutoffsMatchTensor ==
    (/\ st # None
     /\ IF st = None THEN FALSE ELSE (Get(st)._ket # None \/ Get(st)._dm # None))
    => /\ cutoffs(Get(st)).err = "ok"
       /\ cutoffs(Get(st)).out = SubSeq(Shape(stored_fock(Get(st))), 1, Get(st).num_modes)

\* C9: the tensor the fock property returns has rank num_modes when the State is
\* pure and 2 * num_modes when it is mixed.
C9_FockRank ==
    (ret.op = "fock" /\ ret.err = "ok")
    => Len(stored_fock(Get(st)).axes)
         = IF is_pure(Get(st)).out THEN Get(st).num_modes ELSE 2 * Get(st).num_modes

\* C10: applying a Transformation changes neither its acting modes nor its
\* parameters; op[...] changes the acting modes of the object itself, leaves its
\* parameters, and returns that object; so every reference acts on the modes of
\* the most recent selection, and on all modes of the state when none was made.
C10_SelectionOnly ==
    /\ [](objs # <<>> =>
            /\ \A r \in {1} \cup refs : objs[r]._modes = lastSel
            /\ app.ref # 0 =>
                app.acting = Some(IF lastSel = None
                                  THEN PyRange(0, Get(app.state).num_modes)
                                  ELSE Get(lastSel)))
    /\ [][objs # <<>> =>
            /\ app'.ref # 0 => objs' = objs
            /\ \A r \in 1..Len(objs) : objs'[r].Y = objs[r].Y /\ objs'[r].d = objs[r].d]_vars

\* C10's case: a channel bound to a mode by op[...] was applied through the
\* reference op[...] returned
C10_Witness ==
    /\ objs # <<>>
    /\ refs # {}
    /\ lastSel = Some(<<MaxLabel>>)
    /\ app.ref \in refs
    /\ app.err = "ok"
    /\ app.acting = lastSel
    /\ Get(app.state).num_modes = 2

\* the case C11 is about: B.primal(A), both Gaussian with their cov and means
GaussianPrimal ==
    /\ ret.op = "primal"
    /\ ret.arg.self.is_gaussian /\ HasData(ret.arg.self)
    /\ ret.arg.other.is_gaussian /\ HasData(ret.arg.other)

\* what C11 says B.primal(A) returns
PrimalOutcome ==
    IF Range(modes(ret.arg.other)) \subseteq Range(modes(ret.arg.self))
    THEN ret.err = "ok" /\ ret.arg.out = None /\ ret.arg.scalar = Some(DyneProb)
    ELSE /\ ret.err = "ok"
         /\ ret.arg.out # None
         /\ IF ret.arg.out = None THEN FALSE
            ELSE /\ modes(Get(ret.arg.out))
                        = ThoseNot(modes(ret.arg.other), Range(modes(ret.arg.self)))
                 /\ norm(Get(ret.arg.out)).out
                        = IF getattr_normalize(ret.arg.self) THEN One ELSE DyneProb

\* C11: B.primal(A), both Gaussian, is the scalar probability when B's
\* modes cover all of A's modes, and otherwise a State on A's modes not in B, in
\* A's order, whose norm is the probability, or 1.0 when B asks to renormalize.
C11_GaussianPrimal == GaussianPrimal => PrimalOutcome

\* C12: s >> other_state, and s.primal(x) (x << s) for an x that is neither a
\* State nor provides a dual map, raise the type-mismatch error, whose message
\* names both operand kinds, and return no value.
C12_TypeMismatch ==
    /\ (ret.op = "rshift" /\ IsState(ret.arg.x))
        => /\ ret.err = "TypeError"
           /\ ret.arg.out = Mismatch("State", "state")
    /\ (ret.op = "primal_dual" /\ "dual" \notin DOMAIN ret.arg.x)
        => /\ ret.err = "TypeError"
           /\ ret.arg.out = Mismatch(ret.arg.x.class, "State")

\* C12's case: a number was projected onto a State
C12_Witness ==
    /\ ret.op = "primal_dual"
    /\ ret.arg.x.class = "int"
    /\ ret.err = "TypeError"

\* the tensors c * psi and psi / c may hold: psi's ket or dm, scaled
ScaledAmplitudes ==
    {IF ret.op = "mul" THEN times(t, ret.arg.c) ELSE over(t, ret.arg.c) :
        t \in {fock(ret.arg.psi).out}
               \cup (IF ret.arg.psi._dm = None THEN {} ELSE {Get(ret.arg.psi._dm)})}

\* C13: c * psi and psi / c return a State whose ket or dm is psi's scaled by c
\* (by 1/c) and whose mode labels are psi's, for Fock and Gaussian psi alike; for
\* a Gaussian psi a warning is emitted as well.
C13_ScalarArithmetic ==
    ret.op \in {"mul", "div"}
    => /\ ret.err = "ok"
       /\ IF ret.arg.out.state = None THEN FALSE
          ELSE /\ stored_fock(Get(ret.arg.out.state)) \in ScaledAmplitudes
               /\ modes(Get(ret.arg.out.state)) = modes(ret.arg.psi)
       /\ ret.arg.psi.is_gaussian => ret.arg.out.warned

\* C16: an error raised while a preferred projection or a dual map runs reaches
\* the caller of primal as that error: the generic contraction is not taken in
\* its place, and it is not turned into the type-mismatch error.
C16_ErrorsPropagate ==
    /\ (/\ ret.op = "primal"
         /\ "_preferred_projection" \in DOMAIN ret.arg.self
         /\ indices(ret.arg.other, modes(ret.arg.self)).err = "ok"
         /\ (IF "_preferred_projection" \in DOMAIN ret.arg.self
             THEN ret.arg.self._preferred_projection # "returns" ELSE FALSE))
        => ret.err = ret.arg.self._preferred_projection
    /\ (/\ ret.op = "primal_dual"
         /\ "dual" \in DOMAIN ret.arg.x
         /\ (IF "dual" \in DOMAIN ret.arg.x THEN ret.arg.x.dual # "returns" ELSE FALSE))
        => ret.err = ret.arg.x.dual

\* tensor out is tensor t resized to the dimensions dims: zero beyond t's range
ResizedTo(out, t, dims) ==
    /\ Shape(out) = dims
    /\ Len(t.axes) = Len(dims)
    /\ \A k \in 1..Len(dims) : \A i \in 1..dims[k] :
            out.axes[k].amp[i] = IF i <= Len(t.axes[k].amp) THEN t.axes[k].amp[i] ELSE 0

\* the case C14 is about: ket(cutoffs) of a pure, or dm(cutoffs) of any, State
\* built from a ket or a density matrix
FockNativeCall ==
    /\ ret.op \in {"ket", "dm"}
    /\ ~ret.arg.psi.is_gaussian
    /\ ret.arg.cutoffs # None
    /\ ret.op = "ket" => is_pure(ret.arg.psi).out

\* C14: for a Fock-native State, ket(cutoffs) and dm(cutoffs) return the stored
\* tensor zero-padded or truncated to the requested cutoffs (on both axes of a
\* mode for a dm), and leave the stored tensor unchanged, on the first call as
\* on later ones and for a pure State built from a density matrix too.
C14_PadOrSlice ==
    FockNativeCall
    => /\ ret.err = "ok"
       /\ IF ret.arg.out = None THEN FALSE
          ELSE IF ret.op = "ket"
          THEN ResizedTo(Get(ret.arg.out),
                         IF ret.arg.psi._ket # None THEN Get(ret.arg.psi._ket)
                         ELSE dm_to_ket(Get(ret.arg.psi._dm)),
                         Get(ret.arg.cutoffs))
          ELSE ResizedTo(Get(ret.arg.out),
                         IF ret.arg.psi._dm # None THEN Get(ret.arg.psi._dm)
                         ELSE ket_to_dm(Get(ret.arg.psi._ket)),
                         Get(ret.arg.cutoffs) \o Get(ret.arg.cutoffs))
       /\ Get(st)._ket = ret.arg.psi._ket
       /\ Get(st)._dm = ret.arg.psi._dm

\* the case C15 is about: A & B went through the mixed Fock branch
MixedAnd ==
    /\ ret.op = "and"
    /\ ret.err = "ok"
    /\ ~ret.same
    /\ HasData(ret.arg.lhs) /\ HasData(ret.arg.rhs)
    /\ ~(ret.arg.lhs.is_gaussian /\ ret.arg.rhs.is_gaussian)
    /\ is_mixed(ret.arg.lhs).out \/ is_mixed(ret.arg.rhs).out

\* A's n primary axes, B's m primary axes, A's n conjugate axes, B's m conjugate
\* axes, as positions in the outer product of A's and B's density matrices
PrimaryFirst(n, m) ==
    [k \in 1..(2 * (n + m)) |->
        IF k <= n THEN k - 1
        ELSE IF k <= n + m THEN 2 * n + (k - n) - 1
        ELSE IF k <= 2 * n + m THEN n + (k - n - m) - 1
        ELSE 2 * n + m + (k - 2 * n - m) - 1]

\* C15: in the mixed Fock branch of A & B the axis order depends only on n and
\* m and is A's primary, B's primary, A's conjugate, B's conjugate axes; the
\* result has n + m modes and shape cutoffs(A)+cutoffs(B)+cutoffs(A)+cutoffs(B),
\* its axes being those of A's and B's density matrices in that order.
C15_PrimaryFirst ==
    /\ \A n, m \in 1..(MaxModes + 1) : and_perm(2 * n, 2 * m) = PrimaryFirst(n, m)
    /\ MixedAnd
        => /\ Get(st).num_modes = ret.arg.lhs.num_modes + ret.arg.rhs.num_modes
           /\ Shape(Get(Get(st)._dm))
                = cutoffs(ret.arg.lhs).out \o cutoffs(ret.arg.rhs).out
                  \o cutoffs(ret.arg.lhs).out \o cutoffs(ret.arg.rhs).out
           /\ Get(Get(st)._dm)
                = transpose(tensordot(Get(dm(ret.arg.lhs, None).out),
                                      Get(dm(ret.arg.rhs, None).out)),
                            PrimaryFirst(ret.arg.lhs.num_modes, ret.arg.rhs.num_modes))

\* C15's case: a mixed State and a pure State of different cutoffs were composed
C15_Witness ==
    /\ MixedAnd
    /\ cutoffs(ret.arg.lhs).out # cutoffs(ret.arg.rhs).out
    /\ is_mixed(ret.arg.lhs).out # is_mixed(ret.arg.rhs).out

\* what a caller can observe of a State in C17: cutoffs, modes, stored ket and dm
Observed(x) == [cutoffs |-> cutoffs(x).out, modes |-> modes(x), ket |-> x._ket, dm |-> x._dm]

\* C17: A == B leaves cutoffs, modes and the stored ket/dm of both operands as
\* they were, also when A is Gaussian with no Fock tensor yet and B is a Fock
\* state.
C17_EqLeavesOperands ==
    ret.op = "eq"
    => /\ Observed(Get(st)) = Observed(ret.arg.s0)
       /\ Observed(ret.arg.o) = Observed(ret.arg.o0)

\* C18: fock_probabilities(cutoffs) returns on every call a tensor whose
\* per-mode dimensions are the cutoffs passed to that call.
C18_ProbabilitiesOfThisCall ==
    (ret.op = "fock_probabilities" /\ ret.err = "ok") => Shape(ret.arg.out) = ret.arg.cutoffs

====
